---- MODULE Spec2Model ----
(***************************************************************************)
(* Contact Book Manager (src/contact_manager.py): the persisted contact    *)
(* file, the single-slot undo snapshot, the timestamped backups and the    *)
(* duplicate-merge scan, as a state machine.                               *)
(*                                                                         *)
(* Text is a sequence of one-character strings, so that strip, split,      *)
(* lower, the digit filter and the sequence-matching ratio are computed    *)
(* as the code computes them.                                              *)
(*                                                                         *)
(* Left out, as they change none of these files: display, search, the      *)
(* exports to JSON and vCard, the validation warnings and the error log.   *)
(* contacts.json and the CSV of a bulk import are inputs of the operation  *)
(* that reads them.                                                        *)
(***************************************************************************)
EXTENDS Integers, Sequences, FiniteSets, TLC

----------------------------------------------------------------------------
(* Bounds of the model *)

\* operations (menu choices) performed in one behaviour
MaxOps == 4
\* contacts held by the persisted file
MaxContacts == 3
\* last value of the clock, counted in seconds
MaxTime == 2
\* seconds of one calendar day of the model's clock
SecsPerDay == 2

----------------------------------------------------------------------------
(* Text *)

\* the characters the model's inputs are made of, in code-point order
Chars == <<" ", ",", "-", "1", "2", "3", "A", "B", "a", "b", "e", "h", "i", "m", "s", "t">>

Ord(c) == CHOOSE i \in 1..Len(Chars) : Chars[i] = c

IsSpace(c) == c = " "

IsDigit(c) == c \in {"0", "1", "2", "3", "4", "5", "6", "7", "8", "9"}

LowerChar(c) == CASE c = "A" -> "a" [] c = "B" -> "b" [] OTHER -> c

Lower(s) == [i \in 1..Len(s) |-> LowerChar(s[i])]

RECURSIVE LStrip(_)
LStrip(s) == IF s = <<>> THEN s
             ELSE IF IsSpace(Head(s)) THEN LStrip(Tail(s)) ELSE s

RECURSIVE RStrip(_)
RStrip(s) == IF s = <<>> THEN s
             ELSE IF IsSpace(s[Len(s)]) THEN RStrip(SubSeq(s, 1, Len(s) - 1)) ELSE s

\* str.strip()
Strip(s) == RStrip(LStrip(s))

\* str.split(",")
RECURSIVE Split(_)
Split(s) ==
  IF \A i \in 1..Len(s) : s[i] # ","
  THEN <<s>>
  ELSE LET k == CHOOSE i \in 1..Len(s) : s[i] = "," /\ \A h \in 1..(i - 1) : s[h] # ","
       IN <<SubSeq(s, 1, k - 1)>> \o Split(SubSeq(s, k + 1, Len(s)))

\* ",".join(parts)
RECURSIVE Join(_)
Join(parts) ==
  IF parts = <<>> THEN <<>>
  ELSE IF Len(parts) = 1 THEN parts[1]
  ELSE parts[1] \o <<",">> \o Join(Tail(parts))

\* a < b for str: lexicographic by code point
RECURSIVE StrLess(_, _)
StrLess(a, b) ==
  IF b = <<>> THEN FALSE
  ELSE IF a = <<>> THEN TRUE
  ELSE IF Head(a) = Head(b) THEN StrLess(Tail(a), Tail(b))
  ELSE Ord(Head(a)) < Ord(Head(b))

\* sorted(S) of a set of str
RECURSIVE SortSet(_)
SortSet(S) ==
  IF S = {} THEN <<>>
  ELSE LET m == CHOOSE x \in S : \A y \in S \ {x} : StrLess(x, y)
       IN <<m>> \o SortSet(S \ {m})

Range(f) == {f[i] : i \in DOMAIN f}

----------------------------------------------------------------------------
(* Validation and normalization *)

normalize_phone(phone) == SelectSeq(phone, IsDigit)

----------------------------------------------------------------------------
(* Name similarity: difflib.SequenceMatcher(None, a, b).ratio() = 2*M/T *)

Min(x, y) == IF x < y THEN x ELSE y

\* the matching blocks of a and b, as <<i, j, k>>: a[i..i+k-1] = b[j..j+k-1]
Blocks(a, b) ==
  {c \in (1..Len(a)) \X (1..Len(b)) \X (1..Min(Len(a), Len(b))) :
      /\ c[1] + c[3] - 1 <= Len(a)
      /\ c[2] + c[3] - 1 <= Len(b)
      /\ SubSeq(a, c[1], c[1] + c[3] - 1) = SubSeq(b, c[2], c[2] + c[3] - 1)}

\* find_longest_match: the longest block, the earliest in a, then in b
LongestMatch(a, b) ==
  CHOOSE c \in Blocks(a, b) : \A d \in Blocks(a, b) :
      \/ c[3] > d[3]
      \/ c[3] = d[3] /\ c[1] < d[1]
      \/ c[3] = d[3] /\ c[1] = d[1] /\ c[2] <= d[2]

\* M: the characters in the matching blocks, found left and right of the longest
RECURSIVE MatchCount(_, _)
MatchCount(a, b) ==
  IF Blocks(a, b) = {} THEN 0
  ELSE LET c == LongestMatch(a, b)
       IN c[3]
          + MatchCount(SubSeq(a, 1, c[1] - 1), SubSeq(b, 1, c[2] - 1))
          + MatchCount(SubSeq(a, c[1] + c[3], Len(a)), SubSeq(b, c[2] + c[3], Len(b)))

\* ratio(a, b) >= num/den, with ratio = 1.0 when both are empty
RatioAtLeast(a, b, num, den) ==
  IF Len(a) + Len(b) = 0 THEN TRUE
  ELSE 2 * MatchCount(a, b) * den >= num * (Len(a) + Len(b))

\* ratio(a, b) < ratio(c, d)
RatioLess(a, b, c, d) ==
  2 * MatchCount(a, b) * (Len(c) + Len(d)) < 2 * MatchCount(c, d) * (Len(a) + Len(b))

\* merge_duplicates(auto_threshold = 0.9)
AutoThresholdNum == 9
AutoThresholdDen == 10

\* get_close_matches(..., cutoff = 0.85)
CutoffNum == 85
CutoffDen == 100

\* name_similarity(a, b) >= auto_threshold
Similar(a, b) == RatioAtLeast(Lower(a), Lower(b), AutoThresholdNum, AutoThresholdDen)

----------------------------------------------------------------------------
(* Contacts and the persisted contact file *)

\* a contact in memory: favorite is a bool
Contact(n, p, e, t, f) == [name |-> n, phone |-> p, email |-> e, tags |-> t, favorite |-> f]

\* the values read_contacts takes as a true favorite
Truthy == {"1", "true", "yes", "y"}

\* one row of the file as write_contacts writes it: favorite is "1" or "0"
CsvRow(c) == [name |-> c.name, phone |-> c.phone, email |-> c.email, tags |-> c.tags,
              favorite |-> IF c.favorite THEN "1" ELSE "0"]

CsvRows(contacts) == [i \in 1..Len(contacts) |-> CsvRow(contacts[i])]

\* one row as read_contacts reads it: every field stripped (strip and lower leave
\* the "1" and "0" that write_contacts writes as they are)
ReadRow(r) == [name |-> Strip(r.name), phone |-> Strip(r.phone), email |-> Strip(r.email),
               tags |-> Strip(r.tags), favorite |-> r.favorite \in Truthy]

HasName(c) == c.name # <<>>

\* read_contacts of a file: a missing file reads as no contacts, a row without a
\* name is dropped
ReadContacts(file) ==
  IF file.exists
  THEN SelectSeq([i \in 1..Len(file.rows) |-> ReadRow(file.rows[i])], HasName)
  ELSE <<>>

NoFile == [exists |-> FALSE, rows |-> <<>>]
NoSnapshot == [exists |-> FALSE, data |-> <<>>]

\* find_by_name_exact: the index of the first contact of that name, 0 for None
find_by_name_exact(contacts, name) ==
  IF \E i \in 1..Len(contacts) : Lower(contacts[i].name) = Lower(name)
  THEN CHOOSE i \in 1..Len(contacts) :
         /\ Lower(contacts[i].name) = Lower(name)
         /\ \A h \in 1..(i - 1) : Lower(contacts[h].name) # Lower(name)
  ELSE 0

----------------------------------------------------------------------------
(* Field merge *)

\* the tag text of a merge: the stripped, non-empty elements of both, sorted
MergedTags(a, b) ==
  LET parts == Split(a \o <<",">> \o b)
  IN Join(SortSet({Strip(parts[i]) : i \in 1..Len(parts)} \ {<<>>}))

\* a slip: the source's phone wins over the target's
MergeFieldsSourceFirst(target, src) ==
  [name |-> target.name,
   phone |-> IF src.phone # <<>> THEN src.phone ELSE target.phone,
   email |-> IF target.email = <<>> /\ src.email # <<>> THEN src.email ELSE target.email,
   tags |-> MergedTags(target.tags, src.tags),
   favorite |-> target.favorite \/ src.favorite]

\* merge_duplicates: target absorbs src
MergeFields(target, src) ==
  [name |-> target.name,
   phone |-> IF target.phone = <<>> /\ src.phone # <<>> THEN src.phone ELSE target.phone,
   email |-> IF target.email = <<>> /\ src.email # <<>> THEN src.email ELSE target.email,
   tags |-> MergedTags(target.tags, src.tags),
   favorite |-> target.favorite \/ src.favorite]

\* add_contact_interactive, choice M: target absorbs the entered contact
AddMergeFields(target, contact) ==
  [name |-> target.name,
   phone |-> IF target.phone = <<>> /\ contact.phone # <<>> THEN contact.phone ELSE target.phone,
   email |-> IF target.email = <<>> /\ contact.email # <<>> THEN contact.email ELSE target.email,
   tags |-> MergedTags(target.tags, contact.tags),
   favorite |-> target.favorite \/ contact.favorite]

\* get_close_matches(name, names, n=3, cutoff=0.85): the names that qualify
CloseNames(name, names) ==
  {x \in Range(names) : RatioAtLeast(x, name, CutoffNum, CutoffDen)}

\* close[0]: the best score, and of equal scores the greatest name
BestClose(name, names) ==
  CHOOSE x \in CloseNames(name, names) : \A y \in CloseNames(name, names) \ {x} :
      \/ RatioLess(y, name, x, name)
      \/ ~RatioLess(x, name, y, name) /\ StrLess(y, x)

----------------------------------------------------------------------------
(* State *)

VARIABLES
  csv,       \* contacts.csv: [exists, rows]
  snap,      \* .prev_contacts_snapshot.json: [exists, data]
  backups,   \* backups/contacts_backup_<ts>.csv: timestamp -> rows
  clock,     \* datetime.now(), in seconds
  faults,    \* the storage failures that may happen in this run
  pc,        \* "idle", or "prompt" while merge_duplicates waits for an answer
  mc,        \* merge_duplicates: contacts
  used,      \* merge_duplicates: used
  mi,        \* merge_duplicates: i (from 1)
  mj,        \* merge_duplicates: j (from 1)
  mlog,      \* history: the pairs the current scan evaluated, with the answers
  last,      \* history: the last operation and how it ended
  wr,        \* history: how many operations in a row just called write_contacts (to 2)
  prev,      \* history: the contacts persisted before the file was last rewritten
  autos,     \* history: the timestamps of the automatic backups made
  nops       \* history: operations performed

vars == <<csv, snap, backups, clock, faults, pc, mc, used, mi, mj, mlog, last, wr, prev,
          autos, nops>>

Date(t) == t \div SecsPerDay

\* list_backups: the backup files, newest name first
RECURSIVE SortDesc(_)
SortDesc(S) ==
  IF S = {} THEN <<>>
  ELSE LET m == CHOOSE x \in S : \A y \in S : y <= x
       IN <<m>> \o SortDesc(S \ {m})

list_backups == SortDesc(DOMAIN backups)

----------------------------------------------------------------------------
(* write_contacts *)

\* a slip: the whole timestamp compared, not its date
ExistingForTodayExact(bk, now) == \E t \in DOMAIN bk : t = now

\* a backup file of today's date is listed
ExistingForToday(bk, now) == \E t \in DOMAIN bk : Date(t) = Date(now)

\* the dated backup is due: none for today, and there is a file to copy
AutoBackupDue == ~ExistingForToday(backups, clock) /\ csv.exists

\* the second datetime.now() of write_contacts: the clock may have moved on
Stamps == IF AutoBackupDue THEN {t \in {clock, clock + 1} : t <= MaxTime} ELSE {clock}

NoFault == [at |-> "none", k |-> 0]

\* where the rewrite of the file can fail: at open(), or after k rows
WriteFaults(contacts) ==
  IF "rewrite" \in faults
  THEN {NoFault, [at |-> "open", k |-> 0]}
         \cup {[at |-> "row", k |-> k] : k \in 0..(Len(contacts) - 1)}
  ELSE {NoFault}

\* the file after open(CSV_FILE, "w") and the rows written until the fault
Rewritten(contacts, f) ==
  CASE f.at = "none" -> [exists |-> TRUE, rows |-> CsvRows(contacts)]
    [] f.at = "open" -> csv
    [] f.at = "row" -> [exists |-> TRUE, rows |-> SubSeq(CsvRows(contacts), 1, f.k)]

\* where the capture of the snapshot can fail: read_contacts() after k rows of the old
\* file, or snapshot_before_write at open() or inside json.dump()
CaptureFaults ==
  IF "capture" \in faults
  THEN {NoFault, [at |-> "open", k |-> 0], [at |-> "dump", k |-> 0]}
         \cup {[at |-> "read", k |-> k] : k \in 0..(Len(csv.rows) - 1)}
  ELSE {NoFault}

\* the snapshot file after the capture: read_contacts() returns what it had read when it
\* failed, a failed open() leaves the file as it was, and a file cut short inside
\* json.dump() loads as None, as a missing one does
Captured(c) ==
  CASE c.at = "none" -> [exists |-> TRUE, data |-> ReadContacts(csv)]
    [] c.at = "read" ->
         [exists |-> TRUE,
          data |-> ReadContacts([exists |-> TRUE, rows |-> SubSeq(csv.rows, 1, c.k)])]
    [] c.at = "open" -> snap
    [] c.at = "dump" -> NoSnapshot

\* a slip: a failure of the capture reaches the handler of write_contacts
WriteContactsUncaught(contacts, ts, f, c) ==
  [snap |-> Captured(c),
   backups |-> backups,
   autos |-> autos,
   clock |-> clock,
   csv |-> IF c.at = "none" THEN Rewritten(contacts, f) ELSE csv,
   failed |-> f.at # "none" \/ c.at # "none"]

\* write_contacts(contacts): snapshot of the old contacts, the dated backup, the rewrite;
\* failed when an exception reached its handler
WriteContacts(contacts, ts, f, c) ==
  [snap |-> Captured(c),
   backups |-> IF AutoBackupDue THEN (ts :> csv.rows) @@ backups ELSE backups,
   autos |-> IF AutoBackupDue THEN Append(autos, ts) ELSE autos,
   clock |-> ts,
   csv |-> Rewritten(contacts, f),
   failed |-> f.at # "none"]

\* how an operation ended: n the number typed at a menu of files, wrote when it called
\* write_contacts, failed when its file operation raised, capture where the capture of
\* the snapshot failed, want the contacts passed to write_contacts
Result(op, out, ans) ==
  [op |-> op, out |-> out, ans |-> ans, n |-> 0, wrote |-> FALSE, failed |-> FALSE,
   capture |-> "none", want |-> <<>>]

\* an operation other than merge_duplicates runs from the menu to its end
Menu ==
  /\ pc = "idle"
  /\ nops < MaxOps
  /\ nops' = nops + 1
  /\ pc' = "idle"
  /\ mc' = <<>> /\ used' = {} /\ mi' = 0 /\ mj' = 0 /\ mlog' = <<>>
  /\ UNCHANGED faults

\* the operation ends without touching a file
Nothing(op, out, ans) ==
  /\ last' = Result(op, out, ans)
  /\ wr' = 0
  /\ UNCHANGED <<csv, snap, backups, clock, prev, autos>>

\* the operation ends with write_contacts(contacts)
Save(contacts, op, out, ans) ==
  \E ts \in Stamps : \E f \in WriteFaults(contacts) : \E c \in CaptureFaults :
    LET w == WriteContacts(contacts, ts, f, c)
    IN /\ csv' = w.csv /\ snap' = w.snap /\ backups' = w.backups
       /\ clock' = w.clock /\ autos' = w.autos
       /\ prev' = ReadContacts(csv)
       /\ wr' = Min(wr + 1, 2)
       /\ last' = [op |-> op, out |-> out, ans |-> ans, n |-> 0, wrote |-> TRUE,
                   failed |-> w.failed, capture |-> c.at, want |-> contacts]

----------------------------------------------------------------------------
(* Operations *)

\* add_contact_interactive: the answers typed; choice is read only at the prompt
AddContact(in, choice) ==
  /\ Menu
  /\ LET name == Strip(in.name)
         contact == Contact(name, normalize_phone(Strip(in.phone)), Strip(in.email),
                            Strip(in.tags), in.fav \in {"y", "yes"})
         contacts == ReadContacts(csv)
         names == [i \in 1..Len(contacts) |-> contacts[i].name]
         prompted == CloseNames(name, names) # {}
         ch == IF choice = "" THEN "A" ELSE choice
     IN IF name = <<>>
        THEN /\ choice = ""
             /\ Nothing("add", "rejected", "none")
        ELSE /\ prompted \/ choice = ""
             /\ IF prompted /\ ch = "M"
                THEN LET t == find_by_name_exact(contacts, BestClose(name, names))
                     IN Save([contacts EXCEPT ![t] = AddMergeFields(contacts[t], contact)],
                             "add", "merged", ch)
                ELSE /\ Len(contacts) < MaxContacts
                     /\ Save(Append(contacts, contact), "add", "added",
                             IF prompted THEN ch ELSE "none")

\* update_contact_interactive
UpdateContact(name, in) ==
  /\ Menu
  /\ LET contacts == ReadContacts(csv)
         t == find_by_name_exact(contacts, Strip(name))
         new_phone == Strip(in.phone)
         new_email == Strip(in.email)
         new_tags == Strip(in.tags)
     IN IF Strip(name) = <<>> \/ t = 0
        THEN Nothing("update", "not found", "none")
        ELSE Save([contacts EXCEPT ![t] =
                     [name |-> @.name,
                      phone |-> IF new_phone # <<>> THEN normalize_phone(new_phone) ELSE @.phone,
                      email |-> IF new_email # <<>> THEN new_email ELSE @.email,
                      tags |-> IF new_tags # <<>> THEN new_tags ELSE @.tags,
                      favorite |-> IF in.fav \in {"y", "yes"} THEN TRUE
                                   ELSE IF in.fav \in {"n", "no"} THEN FALSE
                                   ELSE @.favorite]],
                  "update", "updated", "none")

OtherName(c, name) == Lower(c.name) # Lower(name)

\* delete_contact_interactive
DeleteContact(name) ==
  /\ Menu
  /\ LET contacts == ReadContacts(csv)
         remaining == SelectSeq(contacts, LAMBDA c : OtherName(c, Strip(name)))
     IN IF Strip(name) = <<>> \/ Len(remaining) = Len(contacts)
        THEN Nothing("delete", "not found", "none")
        ELSE Save(remaining, "delete", "deleted", "none")

\* what bulk_import_csv and import_from_json keep of one entry
Incoming(item) ==
  Contact(Strip(item.name), normalize_phone(item.phone), Strip(item.email), item.tags,
          item.favorite)

\* bulk_import_csv: file is the CSV at the path typed, [exists, rows]
BulkImport(file) ==
  /\ Menu
  /\ LET rows == [i \in 1..Len(file.rows) |->
                    [file.rows[i] EXCEPT !.favorite = @ \in Truthy]]
         incoming == SelectSeq([i \in 1..Len(rows) |-> Incoming(rows[i])], HasName)
         contacts == ReadContacts(csv)
     IN IF ~file.exists
        THEN Nothing("bulk", "not found", "none")
        ELSE IF incoming = <<>>
        THEN Nothing("bulk", "empty", "none")
        ELSE /\ Len(contacts) + Len(incoming) <= MaxContacts
             /\ Save(contacts \o incoming, "bulk", "imported", "none")

\* import_from_json: doc is contacts.json, [exists, list, items]: a list of objects,
\* or some other JSON value
ImportJson(doc, confirm) ==
  /\ Menu
  /\ LET normalized == SelectSeq([i \in 1..Len(doc.items) |-> Incoming(doc.items[i])], HasName)
     IN IF ~doc.exists
        THEN /\ confirm = "YES"
             /\ Nothing("import", "no file", "none")
        ELSE IF ~doc.list
        THEN /\ confirm = "YES"
             /\ Nothing("import", "invalid", "none")
        ELSE IF normalized = <<>>
        THEN /\ confirm = "YES"
             /\ Nothing("import", "empty", "none")
        ELSE IF confirm # "YES"
        THEN Nothing("import", "cancelled", confirm)
        ELSE /\ Len(normalized) <= MaxContacts
             /\ Save(normalized, "import", "imported", confirm)

\* create_backup
CreateBackup ==
  /\ Menu
  /\ IF ~csv.exists
     THEN Nothing("backup", "no file", "none")
     ELSE /\ backups' = (clock :> csv.rows) @@ backups
          /\ last' = Result("backup", "created", "none")
          /\ wr' = 0
          /\ UNCHANGED <<csv, snap, clock, prev, autos>>

\* files[idx] of a Python list: a negative idx counts from the end; 0 for IndexError
Subscript(files, idx) ==
  IF 0 <= idx /\ idx < Len(files) THEN idx + 1
  ELSE IF -Len(files) <= idx /\ idx < 0 THEN Len(files) + idx + 1
  ELSE 0

\* whether the file chosen is still there when it is copied
StillThere == IF "missing" \in faults THEN BOOLEAN ELSE {TRUE}

\* a slip: the destination opened, and so emptied, before the source is found missing
Copy2Truncating(there, rows) ==
  IF there THEN [ok |-> TRUE, csv |-> [exists |-> TRUE, rows |-> rows]]
  ELSE [ok |-> FALSE, csv |-> [exists |-> TRUE, rows |-> <<>>]]

\* shutil.copy2(sel, CSV_FILE): the source is opened first, then the destination
Copy2(there, rows) ==
  IF there THEN [ok |-> TRUE, csv |-> [exists |-> TRUE, rows |-> rows]]
  ELSE [ok |-> FALSE, csv |-> csv]

\* the backup files without the one removed
Without(bk, t) == [u \in DOMAIN bk \ {t} |-> bk[u]]

\* restore_backup: choice is [kind, n]: C, a number n, or other text
RestoreBackup(choice) ==
  /\ Menu
  /\ LET files == list_backups
         sel == Subscript(files, choice.n - 1)
         typed == [Result("restore", "invalid", choice.kind) EXCEPT !.n = choice.n]
     IN IF files = <<>>
        THEN /\ choice.kind = "cancel"
             /\ Nothing("restore", "no backups", "none")
        ELSE IF choice.kind = "cancel"
        THEN Nothing("restore", "cancelled", "C")
        ELSE IF choice.kind = "text" \/ sel = 0
        THEN /\ last' = typed
             /\ wr' = 0
             /\ UNCHANGED <<csv, snap, backups, clock, prev, autos>>
        ELSE \E there \in StillThere :
               LET c == Copy2(there, backups[files[sel]])
               IN /\ csv' = c.csv
                  /\ backups' = IF there THEN backups ELSE Without(backups, files[sel])
                  /\ prev' = IF c.ok THEN ReadContacts(csv) ELSE prev
                  /\ last' = IF c.ok THEN [typed EXCEPT !.out = "restored"]
                                     ELSE [typed EXCEPT !.failed = TRUE]
                  /\ wr' = 0
                  /\ UNCHANGED <<snap, clock, autos>>

\* load_prev_snapshot() is None or empty
NoPrev(s) == ~s.exists \/ s.data = <<>>

\* undo_last_write
Undo ==
  /\ Menu
  /\ IF NoPrev(snap)
     THEN Nothing("undo", "no snapshot", "none")
     ELSE \E ts \in Stamps : \E f \in WriteFaults(snap.data) : \E c \in CaptureFaults :
            LET w == WriteContacts(snap.data, ts, f, c)
            IN /\ csv' = w.csv /\ backups' = w.backups
               /\ clock' = w.clock /\ autos' = w.autos
               /\ snap' = NoSnapshot
               /\ prev' = ReadContacts(csv)
               /\ wr' = 0
               /\ last' = [op |-> "undo", out |-> "restored", ans |-> "none", n |-> 0,
                           wrote |-> TRUE, failed |-> w.failed, capture |-> c.at,
                           want |-> snap.data]

\* a second passes, between operations or while a prompt waits
Tick ==
  /\ clock < MaxTime
  /\ clock' = clock + 1
  /\ UNCHANGED <<csv, snap, backups, faults, pc, mc, used, mi, mj, mlog, last, wr, prev,
                 autos, nops>>

----------------------------------------------------------------------------
(* merge_duplicates *)

\* for i, c in enumerate(contacts): if i in used: continue
SkipTarget(u, i) == i \in u

\* a slip: a consumed source is not skipped
SkipSourceNever(u, j) == FALSE

\* for j in range(i + 1, n): if j in used: continue
SkipSource(u, j) == j \in u

\* range(i + 1, n) starts at
InnerStart(i) == i + 1

\* the two loops from position (i, j) on, to the next pair that is prompted for or
\* to the end; log gets the pairs compared on the way
RECURSIVE Scan(_, _, _, _, _)
Scan(cs, u, i, j, log) ==
  IF i > Len(cs) THEN [done |-> TRUE, i |-> 0, j |-> 0, log |-> log]
  ELSE IF SkipTarget(u, i) \/ j > Len(cs) THEN Scan(cs, u, i + 1, InnerStart(i + 1), log)
  ELSE IF SkipSource(u, j) THEN Scan(cs, u, i, j + 1, log)
  ELSE IF Similar(cs[i].name, cs[j].name) THEN [done |-> FALSE, i |-> i, j |-> j, log |-> log]
  ELSE Scan(cs, u, i, j + 1, Append(log, [i |-> i, j |-> j, ans |-> "-"]))

\* [contacts[i] for i in range(len(contacts)) if i not in used]
Remaining(cs, u) ==
  LET F[k \in 0..Len(cs)] ==
        IF k = 0 THEN <<>>
        ELSE IF k \in u THEN F[k - 1] ELSE Append(F[k - 1], cs[k])
  IN F[Len(cs)]

\* action == "M" or action == "A"
Accepts(ans) == ans \in {"M", "A"}

\* merge_duplicates, from the menu to its first prompt or to its end
MergeStart ==
  /\ pc = "idle"
  /\ nops < MaxOps
  /\ nops' = nops + 1
  /\ UNCHANGED faults
  /\ LET contacts == ReadContacts(csv)
         s == Scan(contacts, {}, 1, InnerStart(1), <<>>)
     IN IF Len(contacts) < 2
        THEN /\ pc' = "idle"
             /\ mc' = <<>> /\ used' = {} /\ mi' = 0 /\ mj' = 0 /\ mlog' = <<>>
             /\ Nothing("merge", "few", "none")
        ELSE /\ mc' = contacts /\ used' = {} /\ mi' = s.i /\ mj' = s.j /\ mlog' = s.log
             /\ IF s.done
                THEN /\ pc' = "idle"
                     /\ Nothing("merge", "none", "none")
                ELSE /\ pc' = "prompt"
                     /\ Nothing("merge", "prompt", "none")

\* merge_duplicates, from the answer to a prompt to the next prompt or to its end
MergeAnswer(ans) ==
  /\ pc = "prompt"
  /\ UNCHANGED <<faults, nops>>
  /\ LET mc2 == IF Accepts(ans) THEN [mc EXCEPT ![mi] = MergeFields(mc[mi], mc[mj])] ELSE mc
         used2 == IF Accepts(ans) THEN used \cup {mj} ELSE used
         s == Scan(mc2, used2, mi, mj + 1, Append(mlog, [i |-> mi, j |-> mj, ans |-> ans]))
     IN /\ mc' = mc2 /\ used' = used2 /\ mi' = s.i /\ mj' = s.j /\ mlog' = s.log
        /\ IF ~s.done
           THEN /\ pc' = "prompt"
                /\ Nothing("merge", "prompt", ans)
           ELSE /\ pc' = "idle"
                /\ IF used2 # {}
                   THEN Save(Remaining(mc2, used2), "merge", "saved", ans)
                   ELSE Nothing("merge", "none", ans)

----------------------------------------------------------------------------
(* Inputs *)

NoText == <<>>

AddInputs ==
  {[name |-> <<" ", "a", "b">>, phone |-> <<"1", "-", "2">>, email |-> NoText,
    tags |-> <<"b", ",", " ", "a">>, fav |-> "n"],
   [name |-> <<"A", "b">>, phone |-> NoText, email |-> <<"e">>, tags |-> NoText, fav |-> "y"],
   [name |-> <<" ">>, phone |-> NoText, email |-> NoText, tags |-> NoText, fav |-> ""]}

AddChoices == {"M", "", "C"}

Keep == [phone |-> NoText, email |-> NoText, tags |-> NoText, fav |-> ""]

UpdateInputs ==
  {<<<<"A", "B">>, Keep>>,
   <<<<"A", "B">>, [phone |-> <<"3", "-">>, email |-> NoText, tags |-> <<"a", ",", ",", "b">>,
                    fav |-> "y"]>>,
   <<<<"e">>, Keep>>}

DeleteInputs == {<<"a", "b">>, <<"e">>}

BulkFiles ==
  {[exists |-> FALSE, rows |-> <<>>],
   [exists |-> TRUE,
    rows |-> <<[name |-> <<" ">>, phone |-> <<"1">>, email |-> NoText, tags |-> NoText,
                favorite |-> "0"],
               [name |-> <<"A", "b", " ">>, phone |-> <<"-", "3">>, email |-> <<"e">>,
                tags |-> <<" ", "a">>, favorite |-> "1"]>>]}

JsonDocs ==
  {[exists |-> FALSE, list |-> FALSE, items |-> <<>>],
   [exists |-> TRUE, list |-> FALSE, items |-> <<>>],
   [exists |-> TRUE, list |-> TRUE,
    items |-> <<[name |-> <<"a", "b">>, phone |-> <<"1", "-", "2">>, email |-> NoText,
                 tags |-> <<"a">>, favorite |-> FALSE]>>]}

Confirms == {"YES", "yes"}

MergeAnswers == {"M", "S", "A"}

RestoreChoices ==
  {[kind |-> "cancel", n |-> 0], [kind |-> "text", n |-> 0]}
    \cup {[kind |-> "number", n |-> n] : n \in -1..(Cardinality(DOMAIN backups) + 1)}

----------------------------------------------------------------------------
(* Specifications *)

\* main_loop has run ensure_csv_exists: the file holds its header alone
Fresh ==
  /\ snap = NoSnapshot
  /\ backups = <<>>
  /\ clock = 0
  /\ pc = "idle"
  /\ mc = <<>> /\ used = {} /\ mi = 0 /\ mj = 0 /\ mlog = <<>>
  /\ last = Result("start", "none", "none")
  /\ wr = 0
  /\ prev = <<>>
  /\ autos = <<>>
  /\ nops = 0

Init ==
  /\ csv = [exists |-> TRUE, rows |-> <<>>]
  /\ faults = {}
  /\ Fresh

Next ==
  \/ \E in \in AddInputs : \E choice \in AddChoices : AddContact(in, choice)
  \/ \E u \in UpdateInputs : UpdateContact(u[1], u[2])
  \/ \E name \in DeleteInputs : DeleteContact(name)
  \/ \E file \in BulkFiles : BulkImport(file)
  \/ \E doc \in JsonDocs : \E confirm \in Confirms : ImportJson(doc, confirm)
  \/ CreateBackup
  \/ \E choice \in RestoreChoices : RestoreBackup(choice)
  \/ Undo
  \/ MergeStart
  \/ \E ans \in MergeAnswers : MergeAnswer(ans)
  \/ Tick

Spec == Init /\ [][Next]_vars

----------------------------------------------------------------------------
(* The files alone: every operation, each with few inputs *)

FewAdds == {in \in AddInputs : Strip(in.name) = <<"a", "b">>}

FewUpdates == {u \in UpdateInputs : u[1] = <<"A", "B">> /\ u[2] # Keep}

FewDeletes == {<<"a", "b">>}

FewFiles == {file \in BulkFiles : file.exists}

FewDocs == {doc \in JsonDocs : doc.exists /\ doc.list}

NextFiles ==
  \/ \E in \in FewAdds : \E choice \in AddChoices : AddContact(in, choice)
  \/ \E u \in FewUpdates : UpdateContact(u[1], u[2])
  \/ \E name \in FewDeletes : DeleteContact(name)
  \/ \E file \in FewFiles : BulkImport(file)
  \/ \E doc \in FewDocs : ImportJson(doc, "YES")
  \/ CreateBackup
  \/ \E choice \in RestoreChoices : RestoreBackup(choice)
  \/ Undo
  \/ MergeStart
  \/ \E ans \in MergeAnswers : MergeAnswer(ans)
  \/ Tick

SpecFiles == Init /\ [][NextFiles]_vars

\* storage may fail, and ensure_csv_exists may have failed to create the file
InitFault ==
  /\ csv \in {NoFile, [exists |-> TRUE, rows |-> <<>>]}
  /\ faults = {"rewrite"}
  /\ Fresh

SpecFault == InitFault /\ [][NextFiles]_vars

\* the files beside contacts.csv may fail: the snapshot cannot be captured, or a backup
\* listed is removed before it is copied
InitStorage ==
  /\ csv = [exists |-> TRUE, rows |-> <<>>]
  /\ faults = {"capture", "missing"}
  /\ Fresh

\* the operations that write, list, copy and restore the files
NextStorage ==
  \/ \E in \in FewAdds : \E choice \in AddChoices : AddContact(in, choice)
  \/ \E u \in FewUpdates : UpdateContact(u[1], u[2])
  \/ \E name \in FewDeletes : DeleteContact(name)
  \/ CreateBackup
  \/ \E choice \in RestoreChoices : RestoreBackup(choice)
  \/ Undo
  \/ Tick

SpecStorage == InitStorage /\ [][NextStorage]_vars

----------------------------------------------------------------------------
(* The duplicate scan alone, over the collections of a few contacts *)

MergePool ==
  {Contact(<<"a", "b">>, NoText, NoText, <<"b", ",", " ", "a">>, FALSE),
   Contact(<<"A", "b">>, <<"1", "2">>, <<"e">>, <<"a">>, TRUE),
   Contact(<<"a", "b">>, <<"3">>, NoText, NoText, FALSE),
   Contact(<<"s", "m", "i", "t", "h">>, NoText, <<"e">>, <<"B">>, FALSE),
   Contact(<<"s", "m", "i", "t", "t", "h">>, <<"3">>, NoText, <<"a", ",", "B">>, TRUE)}

MergeCollections == UNION {[1..n -> MergePool] : n \in 0..MaxContacts}

\* the files after the contacts of c were added one by one, in the first second
InitMerge ==
  /\ \E c \in MergeCollections :
       /\ csv = [exists |-> TRUE, rows |-> CsvRows(c)]
       /\ snap = IF c = <<>> THEN NoSnapshot
                 ELSE [exists |-> TRUE, data |-> SubSeq(c, 1, Len(c) - 1)]
       /\ backups = IF c = <<>> THEN <<>> ELSE (0 :> <<>>)
       /\ autos = IF c = <<>> THEN <<>> ELSE <<0>>
       /\ prev = IF c = <<>> THEN <<>> ELSE SubSeq(c, 1, Len(c) - 1)
  /\ faults = {}
  /\ clock = 0
  /\ pc = "idle"
  /\ mc = <<>> /\ used = {} /\ mi = 0 /\ mj = 0 /\ mlog = <<>>
  /\ last = Result("start", "none", "none")
  /\ wr = 0
  /\ nops = 0

NextMerge ==
  \/ MergeStart
  \/ \E ans \in MergeAnswers : MergeAnswer(ans)

SpecMerge == InitMerge /\ [][NextMerge]_vars

----------------------------------------------------------------------------
(* Properties *)

\* this step is an operation (or the resumption of one) that called write_contacts
WriteStep == last'.wrote /\ (nops' = nops + 1 \/ pc = "prompt")

\* this step is undo_last_write
UndoStep == last'.op = "undo" /\ nops' = nops + 1

\* C1: after two writes W1, W2 in a row, undo_last_write leaves the file holding
\* the contacts persisted just before W2, whatever they were (none included), and
\* the snapshot slot empty; an undo right after an undo reports that there is no
\* snapshot and changes nothing.
C1_UndoRestoresBeforeLastWrite ==
  [][/\ (wr = 2 /\ UndoStep) =>
          /\ ReadContacts(csv') = prev
          /\ ~snap'.exists
     /\ (last.op = "undo" /\ last.out = "restored" /\ UndoStep) =>
          /\ last'.out = "no snapshot"
          /\ UNCHANGED <<csv, snap, backups>>]_vars

\* C2: whenever the snapshot slot is filled it holds the contacts that were
\* persisted just before the file was last rewritten, by whatever operation
\* (restore_backup included).
C2_SnapshotIsPriorState == snap.exists => snap.data = prev

\* the automatic backups made so far that carry date d
AutosOf(log, d) == {k \in 1..Len(log) : Date(log[k]) = d}

\* C3: a write made while the file exists and no backup of today's date does
\* makes exactly one backup file, an automatic one; any other write makes none
\* and leaves the backup files as they are; so no date ever has more than one
\* automatic backup.
C3_OneAutoBackupPerDate ==
  [][/\ WriteStep =>
          IF csv.exists /\ \A t \in DOMAIN backups : Date(t) # Date(clock)
          THEN /\ Cardinality(DOMAIN backups') = Cardinality(DOMAIN backups) + 1
               /\ Len(autos') = Len(autos) + 1
          ELSE /\ backups' = backups
               /\ autos' = autos
     /\ \A d \in 0..Date(MaxTime) : Cardinality(AutosOf(autos', d)) <= 1]_vars

\* C3 happens: two writes in a row on one date, the date's one automatic backup
\* made by the first of them, a second apart
C3_Witness ==
  /\ wr = 2
  /\ autos = <<0>>
  /\ clock = 1
  /\ Date(clock) = Date(0)
  /\ DOMAIN backups = {0}

\* the backup files there were are still there, each with its content
BackupsKept == \A t \in DOMAIN backups : t \in DOMAIN backups' /\ backups'[t] = backups[t]

\* C4: every create_backup made while the file exists adds exactly one backup
\* file, and no operation removes or changes a backup file there was.
C4_ManualBackupAddsOne ==
  [][/\ (last'.op = "backup" /\ nops' = nops + 1 /\ csv.exists) =>
          Cardinality(DOMAIN backups') = Cardinality(DOMAIN backups) + 1
     /\ BackupsKept]_vars

\* C5: in one scan, once a prompt was answered A no further prompt is made.
C5_AutoAfterA == pc = "prompt" => \A k \in 1..Len(mlog) : mlog[k].ans # "A"

\* the indices the scan has consumed, by its log
Consumed(log) == {log[k].j : k \in {h \in 1..Len(log) : Accepts(log[h].ans)}}

\* the pairs of the scan in order: those logged, then the one being prompted for
Pairs == IF pc = "prompt" THEN Append(mlog, [i |-> mi, j |-> mj, ans |-> "?"]) ELSE mlog

\* the contacts of cs whose index is not in gone, in their order
Kept(cs, gone) ==
  LET idx == {k \in 1..Len(cs) : k \notin gone}
      Nth(n) == CHOOSE k \in idx : Cardinality({h \in idx : h < k}) = n - 1
  IN [n \in 1..Cardinality(idx) |-> cs[Nth(n)]]

\* C6: the scan takes pairs (i, j), i < j, in increasing order (i outer, j inner),
\* each at most once; a contact merged as a source is in no later pair; and what
\* is saved at the end is the contacts whose index was not consumed, in order.
C6_ScanOrder ==
  /\ \A k \in 1..Len(Pairs) : Pairs[k].i < Pairs[k].j /\ Pairs[k].j <= Len(mc)
  /\ \A k, l \in 1..Len(Pairs) :
       k < l => \/ Pairs[k].i < Pairs[l].i
                \/ Pairs[k].i = Pairs[l].i /\ Pairs[k].j < Pairs[l].j
  /\ \A k, l \in 1..Len(Pairs) :
       (k < l /\ Accepts(Pairs[k].ans)) =>
          Pairs[l].i # Pairs[k].j /\ Pairs[l].j # Pairs[k].j
  /\ (last.op = "merge" /\ last.out = "saved") =>
       ReadContacts(csv) = Kept(mc, Consumed(mlog))

\* C6 happens: a scan that merged a source out of the middle, went on to a later
\* pair and saved
C6_Witness ==
  /\ last.op = "merge" /\ last.out = "saved"
  /\ \E k, l \in 1..Len(mlog) : k < l /\ Accepts(mlog[k].ans) /\ mlog[k].j < Len(mc)
  /\ Len(ReadContacts(csv)) = Len(mc) - 1

\* the tags of a tag text
TagSet(t) == {Strip(e) : e \in Range(Split(t))} \ {<<>>}

\* the elements of a tag text are in ascending order, none twice
Ascending(t) ==
  LET parts == Split(t) IN \A k \in 1..(Len(parts) - 1) : StrLess(parts[k], parts[k + 1])

\* the answer given by this step of the scan
Answer == mlog'[Len(mlog) + 1].ans

\* C7: a merge answered M or A leaves the target with its name, its phone if it
\* had one and else the source's, its email if it had one and else the source's,
\* the sorted union of both tag sets, favorite if either was, and the source
\* consumed and out of what is saved; any other answer changes no contact.
C7_MergeFields ==
  [][(pc = "prompt" /\ mlog' # mlog) =>
       /\ \A k \in 1..Len(mc) : k # mi => mc'[k] = mc[k]
       /\ IF Accepts(Answer)
          THEN /\ mc'[mi].name = mc[mi].name
               /\ mc'[mi].phone = (IF mc[mi].phone # <<>> THEN mc[mi].phone ELSE mc[mj].phone)
               /\ mc'[mi].email = (IF mc[mi].email # <<>> THEN mc[mi].email ELSE mc[mj].email)
               /\ TagSet(mc'[mi].tags) = TagSet(mc[mi].tags) \cup TagSet(mc[mj].tags)
               /\ Ascending(mc'[mi].tags)
               /\ Range(Split(mc'[mi].tags)) \ {<<>>} = TagSet(mc'[mi].tags)
               /\ mc'[mi].favorite = (mc[mi].favorite \/ mc[mj].favorite)
               /\ used' = used \cup {mj}
               /\ last'.out = "saved" => ReadContacts(csv') = Kept(mc', used')
          ELSE /\ mc' = mc
               /\ used' = used]_vars

\* C7 happens: a target without a phone took the source's, kept its own email
\* over the source's, and got the union of the tags
C7_Witness ==
  /\ last.op = "merge" /\ last.out = "saved" /\ Accepts(last.ans)
  /\ \E k \in 1..Len(mlog) :
       /\ Accepts(mlog[k].ans)
       /\ mc[mlog[k].i].phone = <<"1", "2">>
       /\ mc[mlog[k].i].tags = <<"a", ",", "b">>
       /\ mc[mlog[k].i].name = <<"a", "b">>
       /\ mc[mlog[k].i].favorite
       /\ mc[mlog[k].j].name = <<"A", "b">>

\* the operation that ends with this step was cancelled or declined by the user
Declined ==
  /\ nops' = nops + 1 \/ pc = "prompt"
  /\ \/ last'.op = "add" /\ last'.ans = "C"
     \/ last'.op = "import" /\ last'.out = "cancelled"
     \/ last'.op = "restore" /\ last'.out = "cancelled"
     \/ /\ last'.op = "merge" /\ last'.out = "none"
        /\ \E k \in 1..Len(mlog') : mlog'[k].ans = "S"

\* C8: an operation the user cancels or declines leaves the file, the snapshot
\* slot and the backup files as they were.
C8_CancelChangesNothing == [][Declined => UNCHANGED <<csv, snap, backups>>]_vars

\* C9: a write that fails leaves the file holding the contacts it held before.
C9_WriteAllOrNothing ==
  [][(WriteStep /\ last'.failed) => ReadContacts(csv') = ReadContacts(csv)]_vars

\* the elements of a tag text are stripped and not empty
TagsClean(t) == t = <<>> \/ \A e \in Range(Split(t)) : e # <<>> /\ Strip(e) = e

\* C10: every contact of the file has a name, a phone of digits alone (or none)
\* and tags whose elements are stripped and not empty.
C10_FieldsNormalized ==
  \A k \in 1..Len(csv.rows) :
      /\ csv.rows[k].name # <<>>
      /\ \A h \in 1..Len(csv.rows[k].phone) : IsDigit(csv.rows[k].phone[h])
      /\ TagsClean(csv.rows[k].tags)

----------------------------------------------------------------------------
\* C11: restore_backup with one of the backups listed chosen by its number: when the file
\* is still there, contacts.csv becomes a copy of it, the restore is reported and every
\* backup file stays as it was; when the file has been removed since the listing, the
\* choice is reported as invalid and contacts.csv stays as it was.
C11_RestoreCopiesBackup ==
  [][(/\ last'.op = "restore" /\ nops' = nops + 1
      /\ last'.ans = "number"
      /\ last'.n \in 1..Len(list_backups)) =>
        LET sel == list_backups[last'.n]
        IN IF sel \in DOMAIN backups'
           THEN /\ csv' = [exists |-> TRUE, rows |-> backups[sel]]
                /\ backups' = backups
                /\ last'.out = "restored"
           ELSE /\ csv' = csv
                /\ last'.out = "invalid"
                /\ backups' = Without(backups, sel)]_vars

\* a restore found its backup removed while contacts.csv held contacts and another
\* backup was left
C11_Witness ==
  /\ last.op = "restore" /\ last.failed
  /\ ReadContacts(csv) # <<>>
  /\ backups # <<>>

----------------------------------------------------------------------------
\* C12: when the capture of the snapshot fails inside write_contacts (reading the old
\* contacts, or opening or writing the snapshot file), the write goes on: contacts.csv
\* ends up holding the contacts passed to write_contacts, and write_contacts does not
\* report a failure.
C12_CaptureFailureDoesNotBlock ==
  [][(WriteStep /\ last'.capture # "none") =>
       /\ csv' = [exists |-> TRUE, rows |-> CsvRows(last'.want)]
       /\ ~last'.failed]_vars

\* a write whose capture failed replaced contacts by other contacts
C12_Witness ==
  /\ last.wrote /\ last.capture # "none"
  /\ prev # <<>>
  /\ last.want # <<>>
  /\ last.want # prev

----------------------------------------------------------------------------
\* C13: restore_backup changes contacts.csv only when the choice typed is a number in
\* 1..N, N the number of backups listed; for 0, a negative number, a number above N or
\* text that is not a number, contacts.csv stays as it was and the choice is reported as
\* invalid.
C13_OnlyListedNumbersRestore ==
  [][(/\ last'.op = "restore" /\ nops' = nops + 1
      /\ last'.ans \in {"number", "text"}
      /\ ~(last'.ans = "number" /\ last'.n \in 1..Len(list_backups))) =>
        /\ csv' = csv
        /\ last'.out = "invalid"]_vars

====
